---- MODULE Spec2Model ----
(***************************************************************************)
(* AUD/CHF predictor: the rate-budgeted polling servers.                   *)
(*                                                                         *)
(* Two builds of the polling server are modelled, chosen by `variant`:     *)
(*   "part_000"  src/unnamed/part_000  one 8.5 s timer alternating price   *)
(*               and candle polls, quote derived from the candles;         *)
(*   "server"    src/server.js         three timers (price 20 s, quote     *)
(*               60 s, candles 90 s), quote fetched upstream.              *)
(* Both share canCallAPI / trackCall / safeFetch / broadcast and the       *)
(* /api/stream and /api/candles handlers.                                  *)
(* A third program, the caching proxy src/unnamed/part_001 ("part_001"),   *)
(* has its own specification SpecProxy.                                    *)
(*                                                                         *)
(* Node runs every callback to completion, so one action is one callback   *)
(* together with the promise continuations that follow it without I/O:     *)
(* the part of pollX before `await fetch` belongs to the calling handler,  *)
(* the part after it is the action Complete.  Time is in milliseconds;     *)
(* Advance moves the clock to the next pending deadline, and requests,     *)
(* responses and connection events happen at those instants.               *)
(***************************************************************************)
EXTENDS Integers, Sequences, FiniteSets, TLC

VARIABLES
    variant,          \* which build runs
    env,              \* the envelope of environment activity this run stays within
    started,          \* app.listen's callback has run startPolling
    now,              \* Date.now()
    state,            \* the `state` object: price, quote, candles, last*, apiCalls
    activeTimeframe,  \* let activeTimeframe
    sseClients,       \* const sseClients = new Set()
    tick,             \* let tick (part_000)
    timers,           \* deadlines of setTimeout / setInterval timers of startPolling
    hb,               \* per handle: deadline of its heartbeat interval, or Off
    conn,             \* per handle: "new" (not yet connected), "open", "closed"
    broken,           \* per handle: res.write throws
    inflight,         \* upstream requests awaiting their response
    nextId,           \* sequence number of the next upstream request
    requests,         \* number of /api/candles requests served so far
    recorded,         \* every timestamp trackCall has pushed, in order (history)
    last,             \* what the most recent callback did: its console lines and socket writes
    cache             \* const cache = {} of the caching proxy (part_001)

vars == <<variant, env, started, now, state, activeTimeframe, sseClients, tick, timers,
          hb, conn, broken, inflight, nextId, requests, recorded, last, cache>>

----------------------------------------------------------------------------
(* Bounds of the exploration *)

ScheduleHorizon == 90000
BurstHorizon == 9000
BurstRequests == 6
ClientHorizon == 3000
SwitchRequests == 1
MaxHandles == 2
BeatHorizon == 31000
RevisitHorizon == 40000
RevisitRequests == 2
MaxBars == 62

Variants == {"part_000", "server"}
Timeframes == {"1min", "5min"}
Handles == 1..MaxHandles
Off == -1

\* An envelope bounds what the environment does in one run: the time explored,
\* the number of /api/candles requests, the number of /api/stream connections,
\* and how the upstream behaves: "answers" (any answer at any moment up to the
\* 10 s timeout), "silent" (no answer before the timeout), "prompt" (a good
\* answer before the clock moves on) or "ordered" (prompt, and in the order of
\* the requests).
Envelope(name, horizon, reqs, conns, upstream) ==
    [name |-> name, horizon |-> horizon, requests |-> reqs, handles |-> conns,
     upstream |-> upstream]

Prompt == env.upstream \in {"prompt", "ordered"}

Envelopes ==
    { Envelope("schedule", ScheduleHorizon, 0, 0, "answers"),
      Envelope("burst", BurstHorizon, BurstRequests, 0, "silent"),
      Envelope("fanout", ClientHorizon, 0, MaxHandles, "answers"),
      Envelope("switch", ClientHorizon, SwitchRequests, 1, "answers"),
      Envelope("heartbeat", BeatHorizon, 0, MaxHandles, "silent"),
      Envelope("revisit", RevisitHorizon, RevisitRequests, 0, "prompt") }

----------------------------------------------------------------------------
(* Program constants *)

WINDOW_MS == 60000
LIMIT == 7
FETCH_TIMEOUT_MS == 10000
POLL_MS == 8500
START_CANDLES_MS_afterTick == POLL_MS + 500
START_CANDLES_MS == 3000
HEARTBEAT_MS == 25000
FRESH_MS == 15000
QUOTE_BARS == 60
S_START_QUOTE_MS == 2000
S_START_CANDLES_MS == 4000
S_PRICE_MS == 20000
S_QUOTE_MS == 60000
S_CANDLES_MS == 90000
S_HEARTBEAT_MS == 30000
S_FRESH_MS == 30000

IsPart000 == variant = "part_000"
HeartbeatMs == IF IsPart000 THEN HEARTBEAT_MS ELSE S_HEARTBEAT_MS
FreshMs == IF IsPart000 THEN FRESH_MS ELSE S_FRESH_MS

----------------------------------------------------------------------------
(* Values *)

Min(S) == CHOOSE x \in S : \A y \in S : x <= y
Max(S) == CHOOSE x \in S : \A y \in S : x >= y

\* Upstream sends numbers as decimal strings; a string is its sequence of digits.
RECURSIVE ToNumber(_)
ToNumber(s) == IF Len(s) = 0 THEN 0
               ELSE 10 * ToNumber(SubSeq(s, 1, Len(s) - 1)) + s[Len(s)]

Bar(h, l, o) == [high |-> h, low |-> l, open |-> o]

\* Bar lists the upstream may answer with in the server specification (newest first).
BarLists ==
    { <<>>,
      << Bar(<<9>>, <<7>>, <<8>>), Bar(<<1, 1>>, <<9>>, <<1, 0>>) >> }

NoPrice == [id |-> 0]
NoQuote == [src |-> 0, high |-> 0, low |-> 0, open |-> 0]
NoCandles == [id |-> 0, values |-> <<>>]

NoWrites == [h \in Handles |-> <<>>]
Quiet(op) == [op |-> op, attempts |-> <<>>, writes |-> NoWrites, handle |-> 0, interval |-> "",
              outcome |-> "none"]

TimerNames == {"startQuote", "startCandles", "pollTimer", "priceTimer", "quoteTimer", "candleTimer"}

----------------------------------------------------------------------------
(* Quota tracker *)

\* state.apiCalls.filter(t => now - t < 60000)
Filtered(calls) == SelectSeq(calls, LAMBDA t : now - t < WINDOW_MS)

\* canCallAPI(): the value it returns (it also stores Filtered back)
canCallAPI_offByOne(calls) == Len(Filtered(calls)) <= LIMIT
canCallAPI(calls) == Len(Filtered(calls)) < LIMIT

\* trackCall()
trackCall_forgets(calls) == calls
trackCall(calls) == Append(calls, now)

\* safeFetch up to `await fetch`: admitted or not, and the quota window after it
safeFetchCalls(calls) ==
    IF canCallAPI(calls) THEN trackCall(Filtered(calls)) ELSE Filtered(calls)

Request(kind, interval) == [id |-> nextId, kind |-> kind, interval |-> interval, sent |-> now]
Attempt(kind, interval) == [kind |-> kind, interval |-> interval,
                            admitted |-> canCallAPI(state.apiCalls)]

\* pollPrice / pollQuote / pollCandles up to the await inside safeFetch
Poll(kind, interval) ==
    /\ state' = [state EXCEPT !.apiCalls = safeFetchCalls(state.apiCalls)]
    /\ IF canCallAPI(state.apiCalls)
       THEN /\ inflight' = inflight \cup {Request(kind, interval)}
            /\ nextId' = nextId + 1
            /\ recorded' = Append(recorded, now)
       ELSE UNCHANGED <<inflight, nextId, recorded>>

PollLast(op, kind, interval) ==
    [Quiet(op) EXCEPT !.attempts = <<Attempt(kind, interval)>>, !.interval = interval]

----------------------------------------------------------------------------
(* Fan-out *)

Msg(type, interval, data, ts) ==
    [type |-> type, by |-> "broadcast", interval |-> interval, data |-> data, ts |-> ts]

\* broadcast(msg): the handles left in the set, and what each handle is written
broadcastKeeps_noPrune(clients) == clients
broadcastKeeps(clients) == {c \in clients : ~broken[c]}
broadcastWrites(clients, writes, msg) ==
    [h \in Handles |-> IF h \in clients /\ ~broken[h] THEN Append(writes[h], msg) ELSE writes[h]]

----------------------------------------------------------------------------
(* The caching proxy (part_001): keys and time-to-live *)

TTL_PRICE_MS == 8000
TTL_QUOTE_MS == 30000
TTL_CANDLES_MS == 60000

Sizes == {"100", "200"}

\* `candles_${tf}_${size}`
CandlesKey(tf, size) == <<"candles", tf, size>>
ProxyKeys == {<<"price">>, <<"quote">>} \cup {CandlesKey(tf, size) : tf \in Timeframes, size \in Sizes}

\* CACHE_TTL
CACHE_TTL(key) == CASE key = <<"price">> -> TTL_PRICE_MS
                    [] key = <<"quote">> -> TTL_QUOTE_MS
                    [] OTHER -> TTL_CANDLES_MS

NoEntry == [ts |-> Off]

----------------------------------------------------------------------------
InitWithin(variants, envelopes) ==
    /\ variant \in variants
    /\ env \in envelopes
    /\ started = FALSE
    /\ now = 0
    /\ state = [price |-> NoPrice, quote |-> NoQuote,
                candles |-> [tf \in Timeframes |-> NoCandles],
                lastPrice |-> 0, lastQuote |-> 0,
                lastCandles |-> [tf \in Timeframes |-> 0],
                lastUpdate |-> 0, apiCalls |-> <<>>]
    /\ activeTimeframe = "1min"
    /\ sseClients = {}
    /\ tick = 0
    /\ timers = [n \in TimerNames |-> Off]
    /\ hb = [h \in Handles |-> Off]
    /\ conn = [h \in Handles |-> "new"]
    /\ broken = [h \in Handles |-> FALSE]
    /\ inflight = {}
    /\ nextId = 1
    /\ requests = 0
    /\ recorded = <<>>
    /\ last = Quiet("init")
    /\ cache = [k \in ProxyKeys |-> NoEntry]

Init == InitWithin(Variants, Envelopes)

\* startPolling(): the immediate pollPrice() and the timers it arms
startPolling ==
    /\ ~started
    /\ started' = TRUE
    /\ Poll("price", "")
    /\ timers' = IF IsPart000
                 THEN [timers EXCEPT !["startCandles"] = now + START_CANDLES_MS,
                                     !["pollTimer"] = now + POLL_MS]
                 ELSE [timers EXCEPT !["startQuote"] = now + S_START_QUOTE_MS,
                                     !["startCandles"] = now + S_START_CANDLES_MS,
                                     !["priceTimer"] = now + S_PRICE_MS,
                                     !["quoteTimer"] = now + S_QUOTE_MS,
                                     !["candleTimer"] = now + S_CANDLES_MS]
    /\ last' = PollLast("startPolling", "price", "")
    /\ UNCHANGED <<cache, variant, env, now, activeTimeframe, sseClients, tick, hb, conn, broken, requests>>

Due(n) == timers[n] # Off /\ timers[n] <= now

\* setTimeout(() => pollCandles(activeTimeframe), 3000 | 4000)
startCandles ==
    /\ Due("startCandles")
    /\ Poll("candles", activeTimeframe)
    /\ timers' = [timers EXCEPT !["startCandles"] = Off]
    /\ last' = PollLast("startCandles", "candles", activeTimeframe)
    /\ UNCHANGED <<cache, variant, env, started, now, activeTimeframe, sseClients, tick, hb, conn, broken, requests>>

\* part_000: `if (tick % 2 === 0) pollCandles(activeTimeframe); else pollPrice();`
tickKind_oddCandles(n) == IF n % 2 = 1 THEN "candles" ELSE "price"
tickKind(n) == IF n % 2 = 0 THEN "candles" ELSE "price"

\* part_000: the setInterval callback of startPolling
pollTimer ==
    /\ Due("pollTimer")
    /\ tick' = tick + 1
    /\ IF tickKind(tick') = "candles"
       THEN /\ Poll("candles", activeTimeframe)
            /\ last' = PollLast("pollTimer", "candles", activeTimeframe)
       ELSE /\ Poll("price", "")
            /\ last' = PollLast("pollTimer", "price", "")
    /\ timers' = [timers EXCEPT !["pollTimer"] = now + POLL_MS]
    /\ UNCHANGED <<cache, variant, env, started, now, activeTimeframe, sseClients, hb, conn, broken, requests>>

\* server.js: setTimeout(() => pollQuote(), 2000)
startQuote ==
    /\ Due("startQuote")
    /\ Poll("quote", "")
    /\ timers' = [timers EXCEPT !["startQuote"] = Off]
    /\ last' = PollLast("startQuote", "quote", "")
    /\ UNCHANGED <<cache, variant, env, started, now, activeTimeframe, sseClients, tick, hb, conn, broken, requests>>

\* server.js: setInterval(pollPrice, 20000)
priceTimer ==
    /\ Due("priceTimer")
    /\ Poll("price", "")
    /\ timers' = [timers EXCEPT !["priceTimer"] = now + S_PRICE_MS]
    /\ last' = PollLast("priceTimer", "price", "")
    /\ UNCHANGED <<cache, variant, env, started, now, activeTimeframe, sseClients, tick, hb, conn, broken, requests>>

\* server.js: setInterval(pollQuote, 60000)
quoteTimer ==
    /\ Due("quoteTimer")
    /\ Poll("quote", "")
    /\ timers' = [timers EXCEPT !["quoteTimer"] = now + S_QUOTE_MS]
    /\ last' = PollLast("quoteTimer", "quote", "")
    /\ UNCHANGED <<cache, variant, env, started, now, activeTimeframe, sseClients, tick, hb, conn, broken, requests>>

\* server.js: setInterval(() => pollCandles(activeTimeframe), 90000)
candleTimer ==
    /\ Due("candleTimer")
    /\ Poll("candles", activeTimeframe)
    /\ timers' = [timers EXCEPT !["candleTimer"] = now + S_CANDLES_MS]
    /\ last' = PollLast("candleTimer", "candles", activeTimeframe)
    /\ UNCHANGED <<cache, variant, env, started, now, activeTimeframe, sseClients, tick, hb, conn, broken, requests>>

----------------------------------------------------------------------------
(* Responses *)

\* What the upstream answers: fetch rejects or the body does not parse ("throw"),
\* status "error" ("error"), a body without the price / high / values field
\* ("empty"), or a body with it ("ok").
Outcomes == {"throw", "error", "empty", "ok"}

\* safeFetch after the await: it returns the body rather than null
Returned(outcome) == outcome \in {"ok", "empty"}

\* `data && data.price`, `data && data.high`, `data && data.values`
Accepted(outcome) == Returned(outcome) /\ outcome = "ok"

\* data.values.slice(0, 60)
dayCandles_noSlice(values) == values
dayCandles(values) == SubSeq(values, 1, Min({QUOTE_BARS, Len(values)}))

\* the quote pollCandles derives from a non-empty bar list (part_000)
quoteOf(values) ==
    LET day == dayCandles(values) IN
    [high |-> Max({ToNumber(day[i].high) : i \in DOMAIN day}),
     low |-> Min({ToNumber(day[i].low) : i \in DOMAIN day}),
     open |-> ToNumber(day[Len(day)].open)]

\* pollPrice after the await
pollPriceState_stampsAlways(r, outcome) ==
    [state EXCEPT !.price = IF Accepted(outcome) THEN [id |-> r.id] ELSE @,
                  !.lastPrice = now,
                  !.lastUpdate = IF IsPart000 /\ Accepted(outcome) THEN now ELSE @]
pollPriceState_sentTime(r, outcome) ==
    IF Accepted(outcome)
    THEN [state EXCEPT !.price = [id |-> r.id],
                       !.lastPrice = r.sent,
                       !.lastUpdate = IF IsPart000 THEN now ELSE @]
    ELSE state
pollPriceState(r, outcome) ==
    IF Accepted(outcome)
    THEN [state EXCEPT !.price = [id |-> r.id],
                       !.lastPrice = now,
                       !.lastUpdate = IF IsPart000 THEN now ELSE @]
    ELSE state
pollPriceMsgs(r, outcome) ==
    IF Accepted(outcome) THEN << Msg("price", "", [id |-> r.id], now) >> ELSE <<>>

\* server.js pollQuote after the await
pollQuoteState(r, outcome) ==
    IF Accepted(outcome)
    THEN [state EXCEPT !.quote = [NoQuote EXCEPT !.src = r.id], !.lastQuote = now]
    ELSE state
pollQuoteMsgs(r, outcome) ==
    IF Accepted(outcome)
    THEN << Msg("quote", "", [NoQuote EXCEPT !.src = r.id], now) >> ELSE <<>>

\* part_000 pollCandles: `if (latest)` recomputes the quote
derivesQuote(r, values) == IsPart000 /\ values # <<>>
derivedQuote(r, values) ==
    LET q == quoteOf(values) IN [src |-> r.id, high |-> q.high, low |-> q.low, open |-> q.open]

\* pollCandles after the await
pollCandlesState(r, outcome, values) ==
    IF Accepted(outcome)
    THEN LET s1 == [state EXCEPT !.candles[r.interval] = [id |-> r.id, values |-> values],
                                 !.lastCandles[r.interval] = now,
                                 !.lastUpdate = IF IsPart000 THEN now ELSE @]
         IN IF derivesQuote(r, values)
            THEN [s1 EXCEPT !.quote = derivedQuote(r, values), !.lastQuote = now]
            ELSE s1
    ELSE state
pollCandlesMsgs(r, outcome, values) ==
    IF Accepted(outcome)
    THEN (IF derivesQuote(r, values)
          THEN << Msg("quote", "", derivedQuote(r, values), now) >> ELSE <<>>)
         \o << Msg("candles", r.interval, [id |-> r.id, values |-> values], now) >>
    ELSE <<>>

\* consecutive broadcast(msg) calls of one callback
RECURSIVE broadcastAll(_, _, _)
broadcastAll(clients, writes, msgs) ==
    IF msgs = <<>> THEN [clients |-> clients, writes |-> writes]
    ELSE broadcastAll(broadcastKeeps(clients),
                      broadcastWrites(clients, writes, Head(msgs)), Tail(msgs))

TimedOut(r) == r.sent + FETCH_TIMEOUT_MS <= now

\* The response to request r arrives (or its 10 s timeout fires) and the poll resumes.
Complete(r, outcome, values) ==
    /\ r \in inflight
    /\ TimedOut(r) => outcome = "throw"
    /\ env.upstream = "silent" => TimedOut(r)
    /\ Prompt => (outcome = "ok" /\ (r.kind = "candles" => values # <<>>))
    /\ env.upstream = "ordered" => \A q \in inflight : r.id <= q.id
    /\ (r.kind # "candles" \/ outcome # "ok") => values = <<>>
    /\ inflight' = inflight \ {r}
    /\ LET msgs == CASE r.kind = "price" -> pollPriceMsgs(r, outcome)
                     [] r.kind = "quote" -> pollQuoteMsgs(r, outcome)
                     [] OTHER -> pollCandlesMsgs(r, outcome, values)
           b == broadcastAll(sseClients, NoWrites, msgs)
       IN /\ state' = CASE r.kind = "price" -> pollPriceState(r, outcome)
                        [] r.kind = "quote" -> pollQuoteState(r, outcome)
                        [] OTHER -> pollCandlesState(r, outcome, values)
          /\ sseClients' = b.clients
          /\ last' = [Quiet("complete") EXCEPT !.writes = b.writes, !.outcome = outcome,
                                               !.interval = r.interval]
    /\ UNCHANGED <<cache, variant, env, started, now, activeTimeframe, tick, timers, hb, conn, broken,
                   nextId, requests, recorded>>

----------------------------------------------------------------------------
(* REST *)

\* `!state.candles[tf] || Date.now() - (state.lastCandles[tf] || 0) > 15000`
stale_ignoresAge(tf) == state.candles[tf] = NoCandles
stale(tf) == state.candles[tf] = NoCandles \/ now - state.lastCandles[tf] > FreshMs

\* app.get("/api/candles"): tf is req.query.interval || "1min"
getCandles(tf) ==
    /\ started
    /\ requests < env.requests
    /\ requests' = requests + 1
    /\ IF tf # activeTimeframe
       THEN /\ activeTimeframe' = tf
            /\ IF stale(tf)
               THEN /\ Poll("candles", tf)
                    /\ last' = PollLast("getCandles", "candles", tf)
               ELSE /\ last' = [Quiet("getCandles") EXCEPT !.interval = tf]
                    /\ UNCHANGED <<state, inflight, nextId, recorded>>
       ELSE /\ last' = [Quiet("getCandles") EXCEPT !.interval = tf]
            /\ UNCHANGED <<activeTimeframe, state, inflight, nextId, recorded>>
    /\ UNCHANGED <<cache, variant, env, started, now, sseClients, tick, timers, hb, conn, broken>>

----------------------------------------------------------------------------
(* SSE *)

Boot(type, interval, data, ts) ==
    [type |-> type, by |-> "bootstrap", interval |-> interval, data |-> data, ts |-> ts]
Beat == [type |-> "hb", by |-> "heartbeat", interval |-> "", data |-> NoPrice, ts |-> 0]

\* the three `if (...) res.write(...)` lines of /api/stream
bootstrap_noQuote ==
    (IF state.price # NoPrice
     THEN << Boot("price", "", state.price, state.lastPrice) >> ELSE <<>>)
    \o (IF state.candles[activeTimeframe] # NoCandles
        THEN << Boot("candles", activeTimeframe, state.candles[activeTimeframe],
                     state.lastCandles[activeTimeframe]) >>
        ELSE <<>>)
bootstrap ==
    (IF state.price # NoPrice
     THEN << Boot("price", "", state.price, state.lastPrice) >> ELSE <<>>)
    \o (IF state.quote # NoQuote
        THEN << Boot("quote", "", state.quote, state.lastQuote) >> ELSE <<>>)
    \o (IF state.candles[activeTimeframe] # NoCandles
        THEN << Boot("candles", activeTimeframe, state.candles[activeTimeframe],
                     state.lastCandles[activeTimeframe]) >>
        ELSE <<>>)

\* app.get("/api/stream"): handles connect in the order of their numbers
stream(h) ==
    /\ started
    /\ conn[h] = "new"
    /\ h <= env.handles
    /\ \A g \in Handles : g < h => conn[g] # "new"
    /\ conn' = [conn EXCEPT ![h] = "open"]
    /\ sseClients' = sseClients \cup {h}
    /\ hb' = [hb EXCEPT ![h] = now + HeartbeatMs]
    /\ last' = [Quiet("stream") EXCEPT !.writes[h] = bootstrap, !.handle = h]
    /\ UNCHANGED <<cache, variant, env, started, now, state, activeTimeframe, tick, timers, broken,
                   inflight, nextId, requests, recorded>>

\* the heartbeat interval: try { res.write(": hb\n\n") } catch (e) { clearInterval(hb) }
heartbeatTimer(h) == IF broken[h] THEN Off ELSE now + HeartbeatMs
heartbeatClients(h) == sseClients
heartbeat(h) ==
    /\ hb[h] # Off
    /\ hb[h] <= now
    /\ hb' = [hb EXCEPT ![h] = heartbeatTimer(h)]
    /\ sseClients' = heartbeatClients(h)
    /\ last' = [Quiet("heartbeat") EXCEPT
                   !.writes[h] = IF broken[h] THEN <<>> ELSE <<Beat>>,
                   !.handle = h,
                   !.outcome = IF broken[h] THEN "throw" ELSE "ok"]
    /\ UNCHANGED <<cache, variant, env, started, now, state, activeTimeframe, tick, timers, conn, broken,
                   inflight, nextId, requests, recorded>>

\* req.on("close", () => { sseClients.delete(res); clearInterval(hb); })
closeTimers_all(h) == [g \in Handles |-> Off]
closeTimers(h) == [hb EXCEPT ![h] = Off]
close(h) ==
    /\ conn[h] = "open"
    /\ conn' = [conn EXCEPT ![h] = "closed"]
    /\ sseClients' = sseClients \ {h}
    /\ hb' = closeTimers(h)
    /\ last' = [Quiet("close") EXCEPT !.handle = h]
    /\ UNCHANGED <<cache, variant, env, started, now, state, activeTimeframe, tick, timers, broken,
                   inflight, nextId, requests, recorded>>

\* The socket of an open handle fails: from now on res.write throws.
socketFails(h) ==
    /\ conn[h] = "open"
    /\ ~broken[h]
    /\ broken' = [broken EXCEPT ![h] = TRUE]
    /\ last' = [Quiet("socketFails") EXCEPT !.handle = h]
    /\ UNCHANGED <<cache, variant, env, started, now, state, activeTimeframe, sseClients, tick, timers,
                   hb, conn, inflight, nextId, requests, recorded>>

----------------------------------------------------------------------------
(* Time *)

Deadlines ==
    {timers[n] : n \in {m \in TimerNames : timers[m] # Off}}
    \cup {hb[h] : h \in {g \in Handles : hb[g] # Off}}
    \cup {r.sent + FETCH_TIMEOUT_MS : r \in inflight}

\* The clock moves to the next deadline once every callback that is due has run.
Advance ==
    /\ started
    /\ Deadlines # {}
    /\ \A d \in Deadlines : d > now
    /\ Prompt => inflight = {}
    /\ Min(Deadlines) <= env.horizon
    /\ now' = Min(Deadlines)
    /\ last' = Quiet("advance")
    /\ UNCHANGED <<cache, variant, env, started, state, activeTimeframe, sseClients, tick, timers, hb,
                   conn, broken, inflight, nextId, requests, recorded>>

Next ==
    \/ startPolling
    \/ startCandles
    \/ pollTimer
    \/ startQuote
    \/ priceTimer
    \/ quoteTimer
    \/ candleTimer
    \/ \E r \in inflight, o \in Outcomes, v \in BarLists : Complete(r, o, v)
    \/ \E tf \in Timeframes : getCandles(tf)
    \/ \E h \in Handles : stream(h)
    \/ \E h \in Handles : heartbeat(h)
    \/ \E h \in Handles : close(h)
    \/ \E h \in Handles : socketFails(h)
    \/ Advance

Spec == Init /\ [][Next]_vars

----------------------------------------------------------------------------
(* The quote derivation of part_000 on long bar lists *)

Digits(n) == IF n < 10 THEN <<n>> ELSE <<n \div 10, n % 10>>

\* n bars, newest first: the highest high ("12" among "9"s) at position peak, the
\* lowest low ("8" among "10"s) at position trough, and bar k opening at k.
BarsOf(n, peak, trough) ==
    [k \in 1..n |-> Bar(IF k = peak THEN <<1, 2>> ELSE <<9>>,
                        IF k = trough THEN <<8>> ELSE <<1, 0>>,
                        Digits(k))]

WideLengths == {1, 2, QUOTE_BARS - 1, QUOTE_BARS, QUOTE_BARS + 1, MaxBars}
Marks(n) == {1, QUOTE_BARS - 1, QUOTE_BARS, QUOTE_BARS + 1, n} \cap 1..n
WideBarLists ==
    {BarsOf(n, p, t) : <<n, p, t>> \in
        {<<n, p, t>> \in WideLengths \X (1..MaxBars) \X (1..MaxBars) :
             p \in Marks(n) /\ t \in Marks(n)}}

InitQuote ==
    InitWithin({"part_000"}, {Envelope("quote", ClientHorizon, 0, 1, "prompt")})

NextQuote ==
    \/ startPolling
    \/ startCandles
    \/ \E r \in inflight, v \in WideBarLists \cup {<<>>} : Complete(r, "ok", v)
    \/ \E h \in Handles : stream(h)
    \/ Advance

SpecQuote == InitQuote /\ [][NextQuote]_vars

----------------------------------------------------------------------------
(* part_000 running forever *)

\* The program reads its timestamps only through differences (now - t), its
\* tick counter only through tick % 2 and the request numbers of this model
\* only through their order.  After every epoch of EpochTicks timer ticks,
\* Rebase renames the state to the equivalent one an epoch earlier, so that an
\* unbounded run is a path in a finite graph.  An age of an epoch or more is
\* past every threshold of the program (60,000 ms, 15,000 ms).
LiveCycles == 4
LiveRequests == 6
EpochTicks == 2 * LiveCycles
Epoch == EpochTicks * POLL_MS

Rebased(t) == Max({t - Epoch, 0 - Epoch})

CacheIds ==
    ({state.price.id, state.quote.src} \cup {state.candles[tf].id : tf \in Timeframes}) \ {0}
Rank(i) == Cardinality({j \in CacheIds : j <= i})

Rebase ==
    /\ started
    /\ now >= Epoch
    /\ inflight = {}
    /\ now' = now - Epoch
    /\ timers' = [n \in TimerNames |-> IF timers[n] = Off THEN Off ELSE timers[n] - Epoch]
    /\ hb' = [h \in Handles |-> IF hb[h] = Off THEN Off ELSE hb[h] - Epoch]
    /\ tick' = tick % EpochTicks
    /\ state' = [price |-> [id |-> Rank(state.price.id)],
                 quote |-> [state.quote EXCEPT !.src = Rank(@)],
                 candles |-> [tf \in Timeframes |-> [state.candles[tf] EXCEPT !.id = Rank(@)]],
                 lastPrice |-> Rebased(state.lastPrice),
                 lastQuote |-> Rebased(state.lastQuote),
                 lastCandles |-> [tf \in Timeframes |-> Rebased(state.lastCandles[tf])],
                 lastUpdate |-> Rebased(state.lastUpdate),
                 apiCalls |-> [i \in DOMAIN state.apiCalls |-> Rebased(state.apiCalls[i])]]
    /\ nextId' = Cardinality(CacheIds) + 1
    /\ requests' = 0
    /\ recorded' = [i \in DOMAIN Filtered(recorded) |-> Rebased(Filtered(recorded)[i])]
    /\ last' = Quiet("rebase")
    /\ UNCHANGED <<cache, variant, env, started, activeTimeframe, sseClients, conn, broken, inflight>>

\* One client, which sends up to LiveRequests /api/candles requests in every
\* epoch, each for the timeframe that is not the active one, in bursts that
\* follow a candle poll before any response to it has arrived; the upstream
\* always answers, and successfully.
InitLive ==
    InitWithin({"part_000"}, { Envelope("toggling", Epoch, LiveRequests, 0, "ordered") })

CandlesPending == last.op # "complete" /\ \E r \in inflight : r.kind = "candles"

\* What the server does by itself: timers, responses, the clock
ServerLive ==
    \/ startPolling
    \/ startCandles
    \/ now < Epoch /\ pollTimer
    \/ \E r \in inflight, v \in BarLists : Complete(r, "ok", v)
    \/ Advance
    \/ Rebase

NextLive ==
    \/ ServerLive
    \/ \E tf \in Timeframes \ {activeTimeframe} : CandlesPending /\ getCandles(tf)

\* The timers fire, the clock moves on and the upstream answers.
SpecLive == InitLive /\ [][NextLive]_vars /\ WF_vars(ServerLive)

----------------------------------------------------------------------------
(* The caching proxy (part_001) *)

ProxyHorizon == 8000
ProxyRequests == 3
BurstCalls == 9
ProxyStepMs == 4000

\* `cache[key] && now - cache[key].ts < ttl`
Fresh(key) == cache[key] # NoEntry /\ now - cache[key].ts < CACHE_TTL(key)

\* The pending fetches are a bag: one record per key and start time, with the
\* number of cachedFetch calls that started a fetch for that key at that time.
AddFetch(F, key, t) ==
    IF \E f \in F : f.key = key /\ f.sent = t
    THEN {IF f.key = key /\ f.sent = t THEN [f EXCEPT !.copies = @ + 1] ELSE f : f \in F}
    ELSE F \cup {[key |-> key, sent |-> t, copies |-> 1]}
RemoveFetch(F, f) ==
    IF f.copies = 1 THEN F \ {f} ELSE (F \ {f}) \cup {[f EXCEPT !.copies = @ - 1]}

\* cachedFetch(key, url, ttl) up to `await fetch(url)`, called by a request handler
cachedFetch(key) ==
    /\ requests < env.requests
    /\ requests' = requests + 1
    /\ IF Fresh(key)
       THEN /\ last' = [Quiet("cachedFetch") EXCEPT !.outcome = "hit"]
            /\ UNCHANGED <<inflight, recorded>>
       ELSE /\ inflight' = AddFetch(inflight, key, now)
            /\ recorded' = Append(recorded, now)
            /\ last' = [Quiet("cachedFetch") EXCEPT !.outcome = "miss"]
    /\ UNCHANGED <<cache, variant, env, started, now, state, activeTimeframe, sseClients, tick,
                   timers, hb, conn, broken, nextId>>

\* app.get("/api/price")
proxyPrice == cachedFetch(<<"price">>)

\* app.get("/api/quote")
proxyQuote == cachedFetch(<<"quote">>)

\* app.get("/api/candles"): req.query.interval || "5min", req.query.size || "100"
proxyCandles(interval, size) ==
    cachedFetch(CandlesKey(IF interval = "" THEN "5min" ELSE interval,
                           IF size = "" THEN "100" ELSE size))

\* cachedFetch after the await: `if (data.status !== "error") cache[key] = { data, ts: now }`
\* with the `now` read before the fetch; a rejected fetch is caught.
fetchedCache(f, outcome) ==
    IF outcome \in {"ok", "empty"} THEN [cache EXCEPT ![f.key] = [ts |-> f.sent]] ELSE cache
fetched(f, outcome) ==
    /\ f \in inflight
    /\ env.upstream # "silent"
    /\ inflight' = RemoveFetch(inflight, f)
    /\ cache' = fetchedCache(f, outcome)
    /\ last' = [Quiet("fetched") EXCEPT !.outcome = outcome]
    /\ UNCHANGED <<variant, env, started, now, state, activeTimeframe, sseClients, tick,
                   timers, hb, conn, broken, nextId, requests, recorded>>

\* The clock moves to the next moment an entry expires, or a step further.
ProxyDeadlines ==
    {cache[k].ts + CACHE_TTL(k) : k \in {j \in ProxyKeys : cache[j] # NoEntry}}
    \cup {now + ProxyStepMs}
ProxyAdvance ==
    /\ now' = Min({d \in ProxyDeadlines : d > now})
    /\ now' <= env.horizon
    /\ last' = Quiet("advance")
    /\ UNCHANGED <<cache, variant, env, started, state, activeTimeframe, sseClients, tick,
                   timers, hb, conn, broken, inflight, nextId, requests, recorded>>

\* Either a few requests over the life of a price entry with the upstream
\* answering, or a burst of requests at one moment with no answer yet.
InitProxy ==
    InitWithin({"part_001"}, { Envelope("expiry", ProxyHorizon, ProxyRequests, 0, "answers"),
                               Envelope("pending", 0, BurstCalls, 0, "silent") })

NextProxy ==
    \/ proxyPrice
    \/ proxyQuote
    \/ \E interval \in Timeframes \cup {""}, size \in Sizes \cup {""} : proxyCandles(interval, size)
    \/ \E f \in inflight, o \in Outcomes : fetched(f, o)
    \/ ProxyAdvance

SpecProxy == InitProxy /\ [][NextProxy]_vars

----------------------------------------------------------------------------
(* Claims *)

\* Calls recorded by trackCall whose timestamps lie in the 60,000 ms ending at T
CallsWithin(T) == {i \in DOMAIN recorded : recorded[i] <= T /\ T - recorded[i] < 60000}

\* An attempt made by the callback that just ran
Attempted == last.attempts # <<>>
Denied == Attempted /\ ~last.attempts[1].admitted
Admitted == Attempted /\ last.attempts[1].admitted

\* C1: whatever the interleaving of startup polls, timer polls, switch polls and
\* response completions, no trailing 60,000 ms window (ending now or at any
\* recorded call) holds more than 7 recorded upstream calls.
C1_QuotaNeverExceeded ==
    \A T \in {now} \cup {recorded[i] : i \in DOMAIN recorded} :
        Cardinality(CallsWithin(T)) <= 7

\* C1 witness: the window is full (7 calls) and the seventh came from a
\* timeframe switch, after startup and timer polls.
C1_FullWindow ==
    /\ Cardinality(CallsWithin(now)) = 7
    /\ last.op = "getCandles"
    /\ Admitted
    /\ now > 0

\* C2: a poll is admitted (recorded and sent upstream) if and only if fewer than
\* 7 recorded calls lie within the trailing 60,000 ms; a denied poll sends no
\* request and appends nothing to the quota window.
C2_AdmitIffBelowLimit ==
    [][last'.attempts # <<>> =>
         LET a == last'.attempts[1]
             room == Cardinality(CallsWithin(now)) < 7
             sent == inflight' \ inflight
         IN /\ a.admitted <=> room
            /\ room => /\ recorded' = Append(recorded, now)
                       /\ \E r \in sent : /\ sent = {r}
                                          /\ r.kind = a.kind
                                          /\ r.interval = a.interval
                                          /\ r.sent = now
                       /\ state'.apiCalls # <<>>
                       /\ state'.apiCalls[Len(state'.apiCalls)] = now
            /\ ~room => /\ recorded' = recorded
                        /\ inflight' = inflight
                        /\ Len(state'.apiCalls) <= Len(state.apiCalls)
                        /\ \A i \in DOMAIN state'.apiCalls :
                               \E j \in DOMAIN state.apiCalls :
                                   state'.apiCalls[i] = state.apiCalls[j]]_vars

\* C2 witness: seven polls were admitted from an empty window and the eighth,
\* inside the same 60 s, has just been denied.
C2_EighthDenied ==
    /\ Denied
    /\ Len(recorded) = 7
    /\ Cardinality(CallsWithin(now)) = 7

\* The cache: the values and every last-updated timestamp
Cache(s) == <<s.price, s.quote, s.candles, s.lastPrice, s.lastQuote, s.lastCandles,
              s.lastUpdate>>

\* C3: a poll that is denied by the quota tracker, rejected by the upstream
\* (status "error") or fails in transport changes neither the cached price,
\* quote and candle sets nor their timestamps, and writes to no subscriber;
\* the same holds of the step that issues a poll.
C3_FailedPollLeavesCache ==
    [][(\/ last'.attempts # <<>>
        \/ last'.op = "complete" /\ last'.outcome \in {"error", "throw"})
       => /\ Cache(state') = Cache(state)
          /\ last'.writes = NoWrites
          /\ sseClients' = sseClients]_vars

\* C3 witness: a response has just failed while a price was cached and a healthy
\* subscriber was connected.
C3_FailedWithSubscriber ==
    /\ last.op = "complete"
    /\ last.outcome \in {"error", "throw"}
    /\ state.price # NoPrice
    /\ \E h \in sseClients : ~broken[h]

\* The request whose response the callback has just handled
Completed == inflight \ inflight'

\* C4 (as claimed): in part_000 a successful candle poll for a timeframe that is
\* not the active one at completion changes neither state.quote nor
\* state.lastQuote and broadcasts no "quote" event.
C4_BackgroundPollKeepsQuote ==
    [][(/\ IsPart000
        /\ last'.op = "complete"
        /\ last'.outcome = "ok"
        /\ \E r \in Completed : r.kind = "candles" /\ r.interval # activeTimeframe)
       => /\ state'.quote = state.quote
          /\ state'.lastQuote = state.lastQuote
          /\ \A h \in Handles : \A i \in DOMAIN last'.writes[h] :
                 last'.writes[h][i].type # "quote"]_vars

\* C5: a /api/candles request naming a timeframe T other than the active one
\* makes T active and, inside the handler, makes exactly one quota-gated
\* pollCandles(T) attempt when T is not cached or its set is older than the
\* threshold (15,000 ms in part_000, 30,000 ms in server.js), and none when the
\* cached set is younger than the threshold.
C5_SwitchPollsWhenStale ==
    [][(last'.op = "getCandles" /\ last'.interval # activeTimeframe)
       => LET T == last'.interval
              cached == state.candles[T] # NoCandles
              age == now - state.lastCandles[T]
              threshold == IF variant = "part_000" THEN 15000 ELSE 30000
              room == Cardinality(CallsWithin(now)) < 7
          IN /\ activeTimeframe' = T
             /\ (~cached \/ age > threshold)
                  => /\ last'.attempts =
                          <<[kind |-> "candles", interval |-> T, admitted |-> room]>>
                     /\ room => \E r \in inflight' \ inflight :
                                    r.kind = "candles" /\ r.interval = T /\ r.sent = now
                     /\ ~room => inflight' = inflight
             /\ (cached /\ age < threshold)
                  => /\ last'.attempts = <<>>
                     /\ inflight' = inflight
                     /\ recorded' = recorded]_vars

\* C5 witness: the handler has just polled a timeframe that was cached but too old.
C5_PolledCachedButOld ==
    /\ last.op = "getCandles"
    /\ Admitted
    /\ state.candles[last.interval] # NoCandles
    /\ activeTimeframe = last.interval

\* C6: a handle is written nothing before it connects; connecting while the
\* price, the quote and the active timeframe's candles are cached writes it
\* exactly the price, quote and candles bootstrap messages, in that order, from
\* the cache, in the connecting callback itself: no broadcast comes first.
C6_BootstrapFirst ==
    [][\A h \in Handles :
         conn[h] = "new"
         => /\ h \notin sseClients
            /\ \A i \in DOMAIN last'.writes[h] : last'.writes[h][i].by = "bootstrap"
            /\ (/\ conn'[h] = "open"
                /\ state.price # NoPrice
                /\ state.quote # NoQuote
                /\ state.candles[activeTimeframe] # NoCandles)
               => /\ Len(last'.writes[h]) = 3
                  /\ last'.writes[h][1].type = "price"
                  /\ last'.writes[h][1].data = state.price
                  /\ last'.writes[h][2].type = "quote"
                  /\ last'.writes[h][2].data = state.quote
                  /\ last'.writes[h][3].type = "candles"
                  /\ last'.writes[h][3].interval = activeTimeframe
                  /\ last'.writes[h][3].data = state.candles[activeTimeframe]]_vars

\* C6 witness: a subscriber has just connected and was written three messages.
C6_FullBootstrap ==
    /\ last.op = "stream"
    /\ Len(last.writes[last.handle]) = 3

\* C7: a broadcast drops every handle whose write throws in that same call,
\* still writes the event to every other member, and a handle that is out of
\* the set is written nothing by any broadcast and never re-enters the set.
C7_FailedWriteIsPruned ==
    [][/\ (last'.op = "complete" /\ last'.outcome = "ok")
          => \A h \in sseClients :
                 /\ broken[h] => (h \notin sseClients' /\ last'.writes[h] = <<>>)
                 /\ ~broken[h] => /\ h \in sseClients'
                                  /\ last'.writes[h] # <<>>
                                  /\ \A g \in sseClients :
                                         ~broken[g] => last'.writes[g] = last'.writes[h]
       /\ \A h \in Handles :
              (h \notin sseClients /\ conn[h] # "new")
              => /\ h \notin sseClients'
                 /\ \A i \in DOMAIN last'.writes[h] : last'.writes[h][i].by # "broadcast"]_vars

\* C7 witness: a broadcast has just written to one subscriber while another,
\* whose socket failed, is out of the set with its connection still open.
C7_PrunedWhileOtherServed ==
    /\ last.op = "complete"
    /\ \E h, g \in Handles :
           /\ conn[h] = "open" /\ broken[h] /\ h \notin sseClients
           /\ last.writes[h] = <<>>
           /\ g \in sseClients /\ last.writes[g] # <<>>

\* C8 (as claimed): a heartbeat whose write throws removes the handle from sseClients.
C8_FailedHeartbeatRemoves ==
    [][(last'.op = "heartbeat" /\ last'.outcome = "throw")
       => last'.handle \notin sseClients']_vars

\* C9: in part_000, after a successful candle poll that returned a non-empty
\* newest-first bar list, the quote (stored, and published to the subscribers)
\* is computed over the first N = min(60, number of bars) bars: high is the
\* greatest of their highs, low the least of their lows, open the open of the
\* N-th bar.
C9_QuoteFromFirstBars ==
    /\ \A tf \in Timeframes :
         LET c == state.candles[tf]
             q == state.quote
             N == IF Len(c.values) < 60 THEN Len(c.values) ELSE 60
         IN (c.values # <<>> /\ q.src = c.id)
            => /\ \A i \in 1..N : /\ ToNumber(c.values[i].high) <= q.high
                                  /\ ToNumber(c.values[i].low) >= q.low
               /\ \E i \in 1..N : ToNumber(c.values[i].high) = q.high
               /\ \E i \in 1..N : ToNumber(c.values[i].low) = q.low
               /\ q.open = ToNumber(c.values[N].open)
    /\ (/\ last.op = "complete"
        /\ last.outcome = "ok"
        /\ last.interval # ""
        /\ state.candles[last.interval].values # <<>>)
       => /\ state.quote.src = state.candles[last.interval].id
          /\ state.lastQuote = now
          /\ \A h \in sseClients :
                 /\ Len(last.writes[h]) = 2
                 /\ last.writes[h][1].type = "quote"
                 /\ last.writes[h][1].data = state.quote

\* C9 witness: 62 bars came back with the highest high at bar 61 and the lowest
\* low at bar 62, beyond the 60 the quote is computed from, and a subscriber
\* was sent the quote.
C9_PeakBeyondSixty ==
    /\ last.op = "complete"
    /\ last.interval # ""
    /\ Len(state.candles[last.interval].values) = 62
    /\ ToNumber(state.candles[last.interval].values[61].high) = 12
    /\ ToNumber(state.candles[last.interval].values[62].low) = 8
    /\ state.quote = [src |-> state.candles[last.interval].id,
                      high |-> 9, low |-> 10, open |-> 60]
    /\ sseClients # {}

\* C10: state.lastPrice never decreases; it changes only when a price response
\* is accepted, and then to the time of that callback.
C10_LastPriceMonotone ==
    [][/\ state'.lastPrice >= state.lastPrice
       /\ state'.lastPrice # state.lastPrice
            => /\ last'.op = "complete"
               /\ last'.outcome = "ok"
               /\ state'.lastPrice = now
               /\ \E r \in Completed : r.kind = "price"]_vars

\* C10 witness: a price response has just been accepted while a price poll
\* issued later is still pending, after an earlier accepted price response.
C10_SuccessWhilePending ==
    /\ last.op = "complete"
    /\ last.outcome = "ok"
    /\ state.lastPrice = now
    /\ now > 0
    /\ \E r \in inflight : r.kind = "price" /\ r.id > state.price.id

\* A candle poll for timeframe tf has just been attempted by the timer callback
ScheduledCandlePoll(tf) ==
    /\ last.op = "pollTimer"
    /\ Attempted
    /\ last.attempts[1].kind = "candles"
    /\ last.attempts[1].interval = tf

\* C11 (as claimed): in part_000, with the timer running and the upstream
\* answering, every timeframe that is not the active one is polled by the
\* timer callback again and again.
C11_BackgroundRoundRobin ==
    \A tf \in Timeframes : []<>(tf = activeTimeframe \/ ScheduledCandlePoll(tf))

\* A price poll has just been admitted by the quota tracker
PricePollAdmitted == Admitted /\ last.attempts[1].kind = "price"

\* C20 (as claimed): in part_000, with the timer firing and the upstream always
\* answering successfully, whatever /api/candles requests the clients send, a
\* price poll is admitted by the quota tracker again and again.
C20_PricePollsNotStarved == []<>PricePollAdmitted

\* C12 (as claimed): in part_000 at most one upstream request is in flight at
\* any moment, and every upstream request is started by the scheduler (its
\* startup sequence or its timer callback), never by a request handler.
C12_UpstreamCallsSerialized ==
    [][IsPart000
       => /\ Cardinality(inflight') <= 1
          /\ inflight' \ inflight # {}
               => last'.op \in {"startPolling", "startCandles", "pollTimer"}]_vars

\* C13 (as claimed): in the caching proxy, whatever requests the clients send to
\* /api/price, /api/quote and /api/candles, no trailing 60,000 ms window (ending
\* now or at any upstream request) holds more than 8 upstream requests.
C13_ProxyWithinFreeTier ==
    \A T \in {now} \cup {recorded[i] : i \in DOMAIN recorded} :
        Cardinality(CallsWithin(T)) <= 8

\* C14: a subscriber's disconnect removes that subscriber's handle from
\* sseClients and stops that subscriber's keep-alive timer, and leaves every
\* other subscriber's membership and timer, the scheduler's timers, the tick
\* counter, the active timeframe, the quota window and the cache unchanged.
C14_DisconnectFrame ==
    [][last'.op = "close"
       => LET h == last'.handle
          IN /\ sseClients' = sseClients \ {h}
             /\ hb'[h] = Off
             /\ \A g \in Handles \ {h} : hb'[g] = hb[g]
             /\ timers' = timers
             /\ tick' = tick
             /\ activeTimeframe' = activeTimeframe
             /\ state' = state
             /\ inflight' = inflight]_vars

\* C14 witness: a subscriber has just disconnected while another one is still
\* subscribed with its keep-alive timer armed, a poll is pending and the cache
\* and the quota window are not empty.
C14_ClosedBesideAnother ==
    /\ last.op = "close"
    /\ last.handle \notin sseClients
    /\ hb[last.handle] = Off
    /\ \E g \in sseClients : g # last.handle /\ hb[g] # Off
    /\ state.price # NoPrice
    /\ state.apiCalls # <<>>
    /\ inflight # {}

\* C15: in part_000 every run of the timer callback counts one tick and makes
\* exactly one poll attempt, whatever became of the earlier polls: a price poll
\* on an odd tick, and on an even tick a candle poll for the timeframe that is
\* active at that moment.
C15_TickIssuesOnePoll ==
    [][(IsPart000 /\ last'.op = "pollTimer")
       => /\ tick' = tick + 1
          /\ Len(last'.attempts) = 1
          /\ Cardinality(inflight' \ inflight) <= 1
          /\ inflight \subseteq inflight'
          /\ LET a == last'.attempts[1]
             IN /\ tick' % 2 = 1 => (a.kind = "price" /\ a.interval = "")
                /\ tick' % 2 = 0 => (a.kind = "candles" /\ a.interval = activeTimeframe)
                /\ a.admitted => \E r \in inflight' \ inflight :
                                     r.kind = a.kind /\ r.interval = a.interval
                /\ ~a.admitted => inflight' = inflight]_vars

\* C15 witness: an even tick has just polled the candles of "5min", which a
\* request had made the active timeframe since the previous even tick.
C15_EvenTickAfterSwitch ==
    /\ last.op = "pollTimer"
    /\ tick >= 2
    /\ tick % 2 = 0
    /\ activeTimeframe = "5min"
    /\ last.attempts[1].interval = "5min"
    /\ state.lastCandles["1min"] > 0
    /\ state.lastCandles["5min"] > now - 17000

\* C16 (as claimed): in part_000, with no /api/candles request, no startup poll
\* and no timer poll is ever denied by the quota tracker.
C16_ScheduleNeverDenied ==
    [][(/\ IsPart000
        /\ requests' = 0
        /\ last'.op \in {"startPolling", "startCandles", "pollTimer"})
       => last'.attempts[1].admitted]_vars

\* C17: in part_000 nothing is attempted upstream before startPolling, which
\* attempts a price poll at once; the startup timer attempts a candle poll for
\* the timeframe active at that moment 3,000 ms after startPolling, before the
\* timer callback has ever run (its first run is 8,500 ms after startPolling).
C17_StartupPolls ==
    [][IsPart000
       => /\ ~started => (recorded = <<>> /\ inflight = {} /\ state.apiCalls = <<>>)
          /\ (~started /\ (started' \/ last'.attempts # <<>>))
               => /\ last'.op = "startPolling"
                  /\ last'.attempts = <<[kind |-> "price", interval |-> "", admitted |-> TRUE]>>
                  /\ \E r \in inflight' : r.kind = "price" /\ r.sent = now
          /\ last'.op = "startCandles"
               => /\ now = 3000
                  /\ tick = 0
                  /\ Len(last'.attempts) = 1
                  /\ last'.attempts[1].kind = "candles"
                  /\ last'.attempts[1].interval = activeTimeframe
          /\ last'.op = "pollTimer"
               => /\ now >= 8500
                  /\ timers["startCandles"] = Off
                  /\ timers'["startCandles"] = Off]_vars

\* C17 witness: the startup candle poll has just been attempted for "5min",
\* which a request made the active timeframe after startPolling, while the
\* startup price poll is still pending.
C17_StartupCandlesAfterSwitch ==
    /\ IsPart000
    /\ last.op = "startCandles"
    /\ last.attempts[1].interval = "5min"
    /\ tick = 0
    /\ \E r \in inflight : r.kind = "price" /\ r.sent = 0

\* The cached value of each key that is fetched upstream, by the number of the
\* request it came from (part_000 fetches no quote: it derives it)
CachedIds(s) ==
    [k \in {"price"} \cup Timeframes \cup (IF IsPart000 THEN {} ELSE {"quote"}) |->
        CASE k = "price" -> s.price.id
          [] k = "quote" -> s.quote.src
          [] OTHER -> s.candles[k].id]

\* C18 (as claimed): in part_000 and server.js the response to an earlier
\* request never replaces a cached value that came from a later request: for
\* every key, the number of the request the cached value came from never goes
\* down.
C18_LaterResponseKept ==
    [][\A k \in DOMAIN CachedIds(state) : CachedIds(state')[k] >= CachedIds(state)[k]]_vars

\* C19 (as claimed): in part_000 and server.js, in every reachable state a
\* handle's keep-alive timer is armed if and only if the handle is a member of
\* sseClients.
C19_TimerIffMember ==
    \A h \in Handles : hb[h] # Off <=> h \in sseClients

====
